---- MODULE Spec2Model ----
(***************************************************************************)
(* Model of the weather-station acquisition scripts:                       *)
(*   - the satellite tile download loop  (service-worker.js lines 22-87)   *)
(*   - the whole-sky camera capture loop (service-worker.js lines 89-125)  *)
(* Time is counted in whole minutes of UTC wall clock since                *)
(* EpochYear-01-01T00:00Z.  Strings produced by date(1) and printf(1) are  *)
(* sequences of decimal digits.                                            *)
(***************************************************************************)
EXTENDS Integers, Naturals, Sequences, FiniteSets, TLC

(***************************************************************************)
(* Bounds of the model                                                     *)
(***************************************************************************)
\* number of tile-loop iterations explored
MaxCycles == 3
\* minutes that may pass inside one iteration, besides the sleep
MaxTicks == 1
\* largest response body, in write chunks
MaxBody == 2
\* number of camera-loop iterations explored
MaxCamCycles == 3

\* page loads explored
MaxLoads == 2

\* fetch events explored
MaxRequests == 2

\* versions of the site the server goes through
MaxVersions == 2

(***************************************************************************)
(* UTC calendar: what `date -u +%Y/%m/%d/%H/%M` prints for a clock value   *)
(***************************************************************************)
EpochYear == 2024

MinutesPerDay == 24 * 60

IsLeap(y) == (y % 4 = 0 /\ y % 100 # 0) \/ (y % 400 = 0)

DaysInYear(y) == IF IsLeap(y) THEN 366 ELSE 365

DaysInMonth(y, m) ==
    IF m = 2 THEN (IF IsLeap(y) THEN 29 ELSE 28)
    ELSE IF m \in {4, 6, 9, 11} THEN 30 ELSE 31

RECURSIVE YearOfDay(_, _)
\* <<year, day of year (0-based)>> of day number dn counted from 1 Jan of y
YearOfDay(dn, y) ==
    IF dn < DaysInYear(y) THEN <<y, dn>> ELSE YearOfDay(dn - DaysInYear(y), y + 1)

RECURSIVE MonthOfDay(_, _, _)
\* <<month, day of month (1-based)>> of 0-based day-of-year doy
MonthOfDay(doy, y, m) ==
    IF doy < DaysInMonth(y, m) THEN <<m, doy + 1>>
    ELSE MonthOfDay(doy - DaysInMonth(y, m), y, m + 1)

\* broken-down UTC time of clock value t
Cal(t) ==
    LET yd == YearOfDay(t \div MinutesPerDay, EpochYear)
        md == MonthOfDay(yd[2], yd[1], 1)
        r  == t % MinutesPerDay
    IN  [Y |-> yd[1], Mo |-> md[1], D |-> md[2], H |-> r \div 60, Mi |-> r % 60]

RECURSIVE DaysBeforeYear(_)
DaysBeforeYear(y) == IF y <= EpochYear THEN 0 ELSE DaysInYear(y - 1) + DaysBeforeYear(y - 1)

RECURSIVE DaysBeforeMonth(_, _)
DaysBeforeMonth(y, m) == IF m <= 1 THEN 0 ELSE DaysInMonth(y, m - 1) + DaysBeforeMonth(y, m - 1)

\* clock value of a broken-down UTC time (inverse of Cal)
FromCal(y, mo, d, h, mi) ==
    (DaysBeforeYear(y) + DaysBeforeMonth(y, mo) + (d - 1)) * MinutesPerDay + h * 60 + mi

(***************************************************************************)
(* Strings of digits                                                       *)
(***************************************************************************)
RECURSIVE Pow10(_)
Pow10(w) == IF w = 0 THEN 1 ELSE 10 * Pow10(w - 1)

\* zero-padded decimal rendering of n in w digits (date +%Y %m %d %H %M, printf "%02d")
Fmt(n, w) == [i \in 1..w |-> (n \div Pow10(w - i)) % 10]

RECURSIVE DecVal(_)
\* value of a digit string read as a decimal integer ([ a -ge b ] of test(1))
DecVal(s) == IF s = <<>> THEN 0 ELSE 10 * DecVal(SubSeq(s, 1, Len(s) - 1)) + s[Len(s)]

\* bash arithmetic reads a constant with a leading 0 as octal;
\* a digit 8 or 9 in it is the error "value too great for base"
ArithOk(s) == ~(Len(s) > 1 /\ s[1] = 0 /\ \E i \in 2..Len(s) : s[i] > 7)

RECURSIVE OctVal(_)
OctVal(s) == IF s = <<>> THEN 0 ELSE 8 * OctVal(SubSeq(s, 1, Len(s) - 1)) + s[Len(s)]

\* value of a digit string inside $(( ... )), defined when ArithOk(s)
ArithVal(s) == IF Len(s) > 1 /\ s[1] = 0 THEN OctVal(s) ELSE DecVal(s)

(***************************************************************************)
(* Satellite tile loop: timestamp calculation                              *)
(***************************************************************************)
\* the divisor and multiplier of lines 47 and 49
IntervalDivisor == 65

INTERVAL_NUM(minute) == ArithVal(minute) \div IntervalDivisor

TARGET_MINUTE_NUM(minute) == INTERVAL_NUM(minute) * IntervalDivisor

TARGET_MINUTE(minute) == Fmt(TARGET_MINUTE_NUM(minute), 2)

\* "${CURRENT_YEAR}${CURRENT_MONTH}${CURRENT_DAY}${CURRENT_HOUR}${TARGET_MINUTE}"
Timestamp(year, month, day, hour, minute) ==
    year \o month \o day \o hour \o TARGET_MINUTE(minute)

(***************************************************************************)
(* Paths                                                                   *)
(***************************************************************************)
\* the camera directory given as the satellite output directory
OutputDirInImgDir == "/home/dimitris/weather_station/whole_sky_camera"

\* line 29
OUTPUT_DIR == "/home/dimitris/weather_station/satellite_latest"

\* line 30
OUTPUT_FILE == "satellite_greece.jpg"

\* line 31: "$OUTPUT_DIR/$OUTPUT_FILE"
OUTPUT_PATH == <<OUTPUT_DIR, OUTPUT_FILE>>

\* line 92
IMG_DIR == "/home/dimitris/weather_station/whole_sky_camera"

(***************************************************************************)
(* State                                                                   *)
(***************************************************************************)
VARIABLES
    now,              \* UTC wall clock, minutes since EpochYear-01-01T00:00Z
    tpc,              \* tile loop: the statement about to run
    CURRENT_YEAR,     \* tile loop shell variables (digit strings)
    CURRENT_MONTH,
    CURRENT_DAY,
    CURRENT_HOUR,
    CURRENT_MINUTE,
    LATEST_TIMESTAMP,
    file,             \* content of $OUTPUT_PATH, or NoFile
    xfer,             \* the response curl is receiving
    rc,               \* curl's exit status ($?)
    logged,           \* which of the three result messages the iteration echoed
    cycle,            \* number of the tile loop iteration
    ticks,            \* minutes passed inside the current iteration
    prior,            \* history: content of $OUTPUT_PATH when the iteration began
    lastGood,         \* history: last payload of a complete, non-empty 2xx response
    seen,             \* what an external reader of $OUTPUT_PATH last observed
    attempts,         \* history: curl invocations of the current iteration
    attemptAt,        \* history: the clock value at the last curl invocation
    cpc,              \* camera loop: the statement about to run
    CAM_CURRENT_HOUR, \* camera loop shell variable CURRENT_HOUR (digit string)
    TIMESTAMP,        \* camera loop shell variable: the instant the name is made of
    dir,              \* the *.jpg files of $IMG_DIR
    camCycle,         \* number of the camera loop iteration
    camTicks,         \* minutes passed inside the current camera iteration
    readAt,           \* history: the clock value line 100 read
    attempted,        \* history: libcamera-still was run in this iteration
    before,           \* history: $IMG_DIR when the last retention pass began
    evicted,          \* history: the files the last retention pass removed, in order
    passes,           \* history: retention passes since the last write to $IMG_DIR
    skipped,          \* the iteration echoed the "Skipping capture" message
    passCycle,        \* history: the iteration the last retention pass ran in
    failed,           \* history: files rm could not delete in the last pass
    prevFailed,       \* history: files rm could not delete in the pass before
    \* ---- the page script (custom.js)
    ppc,              \* position in registerAndSubscribePush
    hasServiceWorker, \* "serviceWorker" in navigator
    hasNotification,  \* "Notification" in window
    hasPushManager,   \* "PushManager" in window
    reg,              \* the registration has been obtained
    permission,       \* result of Notification.requestPermission()
    subscription,     \* the push subscription has been obtained
    request,          \* the POST to /store_subscription: "none", "sent", "received"
    stored,           \* number of subscriptions the server has received
    alertShown,       \* the alert the invocation has shown
    threwAt,          \* the awaited call that rejected in this invocation
    steps,            \* history: the calls that resolved in this invocation
    loads,            \* number of page loads so far
    \* ---- the service worker (service-worker.js 1-20)
    swState,          \* "parsed", "installing", "activated" or "redundant"
    caches,           \* the origin's cache storage: <<cache name, URL, version>>
    fetched,          \* responses cache.addAll has received so far
    installs,         \* number of install events so far
    serverVersion,    \* version of the resources the server serves now
    online,           \* the network is reachable
    requests,         \* number of fetch events handled
    response          \* what the last fetch event was answered with

tileVars == <<tpc, CURRENT_YEAR, CURRENT_MONTH, CURRENT_DAY, CURRENT_HOUR,
              CURRENT_MINUTE, LATEST_TIMESTAMP, file, xfer, rc, logged, cycle,
              ticks, prior, lastGood, seen, attempts, attemptAt>>

camVars == <<cpc, CAM_CURRENT_HOUR, TIMESTAMP, dir, camCycle, camTicks, readAt,
             attempted, before, evicted, passes, skipped, passCycle, failed,
             prevFailed>>

pushVars == <<ppc, hasServiceWorker, hasNotification, hasPushManager, reg,
              permission, subscription, request, stored, alertShown, threwAt,
              steps, loads>>

swVars == <<swState, caches, fetched, installs, serverVersion, online, requests,
            response>>

webVars == <<pushVars, swVars>>

stationVars == <<now, tileVars, camVars>>

vars == <<stationVars, webVars>>

NoFile == [src |-> 0, total |-> 0, len |-> 0]

NoXfer == [status |-> "none", total |-> 0, got |-> 0]

\* the first len chunks of the body of the response received in iteration src
Content(src, total, len) == [src |-> src, total |-> total, len |-> len]

\* [ -s "$OUTPUT_PATH" ]: the file exists and is not empty
NonEmptyFile(f) == f # NoFile /\ f.len > 0

\* clock readings the tile loop is started at
TileStarts ==
    { FromCal(2024, 6, 1, 10, 7),      \* the reference reading 10:07Z
      FromCal(2024, 6, 1, 10, 52),     \* next iteration crosses the hour
      FromCal(2024, 12, 31, 23, 59),   \* a tick crosses the year
      FromCal(2024, 2, 29, 23, 44) }   \* leap day, next iteration crosses the month

InitTileVars ==
    /\ cycle = 1
    /\ tpc = "date_year"
    /\ CURRENT_YEAR = <<>>
    /\ CURRENT_MONTH = <<>>
    /\ CURRENT_DAY = <<>>
    /\ CURRENT_HOUR = <<>>
    /\ CURRENT_MINUTE = <<>>
    /\ LATEST_TIMESTAMP = <<>>
    /\ file = NoFile
    /\ xfer = NoXfer
    /\ rc = 0
    /\ logged = "none"
    /\ ticks = 0
    /\ prior = NoFile
    /\ lastGood = NoFile
    /\ seen = NoFile
    /\ attempts = 0
    /\ attemptAt = 0

\* the tile script asleep at the end of iteration c, begun at the present
\* clock reading, in which a one-chunk tile arrived whole and was stored
AsleepAfterDownload(c) ==
    /\ cycle = c
    /\ tpc = "sleep"
    /\ CURRENT_YEAR = Fmt(Cal(now).Y, 4)
    /\ CURRENT_MONTH = Fmt(Cal(now).Mo, 2)
    /\ CURRENT_DAY = Fmt(Cal(now).D, 2)
    /\ CURRENT_HOUR = Fmt(Cal(now).H, 2)
    /\ CURRENT_MINUTE = Fmt(Cal(now).Mi, 2)
    /\ LATEST_TIMESTAMP = Timestamp(CURRENT_YEAR, CURRENT_MONTH, CURRENT_DAY,
                                    CURRENT_HOUR, CURRENT_MINUTE)
    /\ file = Content(c, 1, 1)
    /\ xfer = [status |-> "2xx", total |-> 1, got |-> 1]
    /\ rc = 0
    /\ logged = "successful"
    /\ ticks = 0
    /\ prior = NoFile
    /\ lastGood = Content(c, 1, 1)
    /\ seen = NoFile
    /\ attempts = 1
    /\ attemptAt = now

(***************************************************************************)
(* Service worker: install and fetch listeners                             *)
(***************************************************************************)
\* line 1
CACHE_NAME == "weather-station-cache-v1"

\* lines 2-6
urlsToCache == {"/", "/assets/manifest.json"}

\* URLs the pages of the site request
Urls == urlsToCache \cup {"/assets/icons/custom.js", "/store_subscription"}

Requests == [url : Urls, method : {"GET", "POST"}]

NoResponse == [url |-> "", method |-> "", from |-> "none", version |-> 0]

\* a service worker script just parsed, nothing cached, nothing requested
NoWorker ==
    /\ swState = "parsed"
    /\ caches = {}
    /\ fetched = {}
    /\ installs = 0
    /\ serverVersion = 1
    /\ online = TRUE
    /\ requests = 0
    /\ response = NoResponse

\* caches.match(request): the stored responses for the request's URL, in any
\* cache of the origin; only GET requests match
Match(req) ==
    IF req.method = "GET" THEN {e \in caches : e[2] = req.url} ELSE {}

\* lines 8-9: the install event is dispatched; caches.open(CACHE_NAME)
InstallEvent ==
    /\ swState \in {"parsed", "redundant"}
    /\ installs < MaxLoads
    /\ installs' = installs + 1
    /\ swState' = "installing"
    /\ fetched' = {}
    /\ UNCHANGED <<caches, serverVersion, online, requests, response>>
    /\ UNCHANGED <<stationVars, pushVars>>

\* line 11: cache.addAll(urlsToCache) receives the response for one URL
AddAllFetch ==
    /\ swState = "installing"
    /\ online
    /\ \E u \in urlsToCache :
          /\ \A e \in fetched : e[2] # u
          /\ fetched' = fetched \cup {<<CACHE_NAME, u, serverVersion>>}
    /\ UNCHANGED <<swState, caches, installs, serverVersion, online, requests, response>>
    /\ UNCHANGED <<stationVars, pushVars>>

\* line 11: one of the requests of addAll fails; nothing is stored and the
\* promise given to waitUntil rejects
AddAllFails ==
    /\ swState = "installing"
    /\ ~online
    /\ fetched' = {}
    /\ swState' = "redundant"
    /\ UNCHANGED <<caches, installs, serverVersion, online, requests, response>>
    /\ UNCHANGED <<stationVars, pushVars>>

\* line 11: every response is there; addAll stores them, replacing entries
\* for the same URLs, and the worker goes on to activate
AddAllStore ==
    /\ swState = "installing"
    /\ {e[2] : e \in fetched} = urlsToCache
    /\ caches' = {e \in caches : ~(e[1] = CACHE_NAME /\ e[2] \in urlsToCache)} \cup fetched
    /\ fetched' = {}
    /\ swState' = "activated"
    /\ UNCHANGED <<installs, serverVersion, online, requests, response>>
    /\ UNCHANGED <<stationVars, pushVars>>

\* a fetch handler that keeps a copy of what it got from the network
FetchEventKeepingCopy(req) ==
    /\ swState = "activated"
    /\ requests < MaxRequests
    /\ requests' = requests + 1
    /\ IF Match(req) # {}
          THEN /\ \E e \in Match(req) :
                     response' = [url |-> req.url, method |-> req.method,
                                  from |-> "cache", version |-> e[3]]
               /\ caches' = caches
          ELSE IF online
                  THEN /\ response' = [url |-> req.url, method |-> req.method,
                                       from |-> "network", version |-> serverVersion]
                       /\ caches' = caches \cup {<<CACHE_NAME, req.url, serverVersion>>}
                  ELSE /\ response' = [url |-> req.url, method |-> req.method,
                                       from |-> "error", version |-> 0]
                       /\ caches' = caches
    /\ UNCHANGED <<swState, fetched, installs, serverVersion, online>>
    /\ UNCHANGED <<stationVars, pushVars>>

\* lines 15-20: respondWith(caches.match(request).then(r => r || fetch(request)))
FetchEvent(req) ==
    /\ swState = "activated"
    /\ requests < MaxRequests
    /\ requests' = requests + 1
    /\ IF Match(req) # {}
          THEN \E e \in Match(req) :
                  response' = [url |-> req.url, method |-> req.method,
                               from |-> "cache", version |-> e[3]]
          ELSE IF online
                  THEN response' = [url |-> req.url, method |-> req.method,
                                    from |-> "network", version |-> serverVersion]
                  ELSE response' = [url |-> req.url, method |-> req.method,
                                    from |-> "error", version |-> 0]
    /\ UNCHANGED <<swState, caches, fetched, installs, serverVersion, online>>
    /\ UNCHANGED <<stationVars, pushVars>>

\* a page of the site makes a request and the worker's fetch listener runs
PageRequest ==
    \E req \in Requests : FetchEvent(req)

\* the site is redeployed
ServerUpdate ==
    /\ serverVersion < MaxVersions
    /\ serverVersion' = serverVersion + 1
    /\ UNCHANGED <<swState, caches, fetched, installs, online, requests, response>>
    /\ UNCHANGED <<stationVars, pushVars>>

\* the network goes away or comes back
NetworkChange ==
    /\ online' = ~online
    /\ UNCHANGED <<swState, caches, fetched, installs, serverVersion, requests, response>>
    /\ UNCHANGED <<stationVars, pushVars>>

(***************************************************************************)
(* Page script: registerAndSubscribePush                                   *)
(***************************************************************************)
\* the local state of an invocation that has not begun
NoInvocation ==
    /\ reg = FALSE
    /\ permission = "unasked"
    /\ subscription = FALSE
    /\ request = "none"
    /\ alertShown = "none"
    /\ threwAt = "none"
    /\ steps = <<>>

\* a browser with every API, no page loaded
NoPage ==
    /\ ppc = "idle"
    /\ hasServiceWorker = TRUE
    /\ hasNotification = TRUE
    /\ hasPushManager = TRUE
    /\ stored = 0
    /\ loads = 0
    /\ NoInvocation

\* custom.js 67-70: DOMContentLoaded calls registerAndSubscribePush()
PageLoad ==
    /\ ppc \in {"idle", "done"}
    /\ loads < MaxLoads
    /\ loads' = loads + 1
    /\ ppc' = "check_sw"
    /\ reg' = FALSE
    /\ permission' = "unasked"
    /\ subscription' = FALSE
    /\ request' = "none"
    /\ alertShown' = "none"
    /\ threwAt' = "none"
    /\ steps' = <<>>
    /\ UNCHANGED <<hasServiceWorker, hasNotification, hasPushManager, stored>>
    /\ UNCHANGED <<stationVars, swVars>>

\* custom.js 17-20: if (!("serviceWorker" in navigator)) return
CheckServiceWorker ==
    /\ ppc = "check_sw"
    /\ ppc' = IF hasServiceWorker THEN "check_notification" ELSE "done"
    /\ UNCHANGED <<hasServiceWorker, hasNotification, hasPushManager, reg, permission,
                   subscription, request, stored, alertShown, threwAt, steps, loads>>
    /\ UNCHANGED <<stationVars, swVars>>

\* custom.js 21-24: if (!("Notification" in window)) return
CheckNotification ==
    /\ ppc = "check_notification"
    /\ ppc' = IF hasNotification THEN "register" ELSE "done"
    /\ UNCHANGED <<hasServiceWorker, hasNotification, hasPushManager, reg, permission,
                   subscription, request, stored, alertShown, threwAt, steps, loads>>
    /\ UNCHANGED <<stationVars, swVars>>

\* custom.js 28: await navigator.serviceWorker.register("/assets/sw.js") resolves
RegisterResolves ==
    /\ ppc = "register"
    /\ reg' = TRUE
    /\ steps' = Append(steps, "register")
    /\ ppc' = "permission"
    /\ UNCHANGED <<hasServiceWorker, hasNotification, hasPushManager, permission,
                   subscription, request, stored, alertShown, threwAt, loads>>
    /\ UNCHANGED <<stationVars, swVars>>

\* custom.js 28: the registration rejects
RegisterRejects ==
    /\ ppc = "register"
    /\ threwAt' = "register"
    /\ ppc' = "catch"
    /\ UNCHANGED <<hasServiceWorker, hasNotification, hasPushManager, reg, permission,
                   subscription, request, stored, alertShown, steps, loads>>
    /\ UNCHANGED <<stationVars, swVars>>

\* custom.js 32: await Notification.requestPermission() resolves
PermissionResolves ==
    /\ ppc = "permission"
    /\ \E p \in {"granted", "denied", "default"} :
          /\ permission' = p
          /\ steps' = Append(steps, p)
    /\ ppc' = "check_permission"
    /\ UNCHANGED <<hasServiceWorker, hasNotification, hasPushManager, reg,
                   subscription, request, stored, alertShown, threwAt, loads>>
    /\ UNCHANGED <<stationVars, swVars>>

\* custom.js 32: the permission request rejects
PermissionRejects ==
    /\ ppc = "permission"
    /\ threwAt' = "permission"
    /\ ppc' = "catch"
    /\ UNCHANGED <<hasServiceWorker, hasNotification, hasPushManager, reg, permission,
                   subscription, request, stored, alertShown, steps, loads>>
    /\ UNCHANGED <<stationVars, swVars>>

\* the permission check falling through whatever the answer
CheckPermissionNoReturn ==
    /\ ppc = "check_permission"
    /\ IF permission # "granted"
          THEN alertShown' = "not_granted"
          ELSE alertShown' = alertShown
    /\ ppc' = "check_push"
    /\ UNCHANGED <<hasServiceWorker, hasNotification, hasPushManager, reg, permission,
                   subscription, request, stored, threwAt, steps, loads>>
    /\ UNCHANGED <<stationVars, swVars>>

\* custom.js 34-37: if (permission !== "granted") { alert(...); return }
CheckPermission ==
    /\ ppc = "check_permission"
    /\ IF permission # "granted"
          THEN /\ alertShown' = "not_granted"
               /\ ppc' = "done"
          ELSE /\ alertShown' = alertShown
               /\ ppc' = "check_push"
    /\ UNCHANGED <<hasServiceWorker, hasNotification, hasPushManager, reg, permission,
                   subscription, request, stored, threwAt, steps, loads>>
    /\ UNCHANGED <<stationVars, swVars>>

\* custom.js 40-43: if (!("PushManager" in window)) return
CheckPushManager ==
    /\ ppc = "check_push"
    /\ ppc' = IF hasPushManager THEN "subscribe" ELSE "done"
    /\ UNCHANGED <<hasServiceWorker, hasNotification, hasPushManager, reg, permission,
                   subscription, request, stored, alertShown, threwAt, steps, loads>>
    /\ UNCHANGED <<stationVars, swVars>>

\* custom.js 48-51: await reg.pushManager.subscribe(...) resolves
SubscribeResolves ==
    /\ ppc = "subscribe"
    /\ subscription' = TRUE
    /\ steps' = Append(steps, "subscribe")
    /\ ppc' = "fetch"
    /\ UNCHANGED <<hasServiceWorker, hasNotification, hasPushManager, reg, permission,
                   request, stored, alertShown, threwAt, loads>>
    /\ UNCHANGED <<stationVars, swVars>>

\* custom.js 48-51: the subscription rejects
SubscribeRejects ==
    /\ ppc = "subscribe"
    /\ threwAt' = "subscribe"
    /\ ppc' = "catch"
    /\ UNCHANGED <<hasServiceWorker, hasNotification, hasPushManager, reg, permission,
                   subscription, request, stored, alertShown, steps, loads>>
    /\ UNCHANGED <<stationVars, swVars>>

\* custom.js 55-59: fetch("/store_subscription", {method: "POST", ...}) is called
FetchCall ==
    /\ ppc = "fetch"
    /\ request' = "sent"
    /\ ppc' = "await_fetch"
    /\ UNCHANGED <<hasServiceWorker, hasNotification, hasPushManager, reg, permission,
                   subscription, stored, alertShown, threwAt, steps, loads>>
    /\ UNCHANGED <<stationVars, swVars>>

\* the POST reaches the server
ServerReceives ==
    /\ ppc = "await_fetch"
    /\ request = "sent"
    /\ request' = "received"
    /\ stored' = stored + 1
    /\ UNCHANGED <<ppc, hasServiceWorker, hasNotification, hasPushManager, reg,
                   permission, subscription, alertShown, threwAt, steps, loads>>
    /\ UNCHANGED <<stationVars, swVars>>

\* custom.js 55: the awaited fetch resolves with the server's response,
\* whatever its status
FetchResolves ==
    /\ ppc = "await_fetch"
    /\ request = "received"
    /\ steps' = Append(steps, "fetch")
    /\ ppc' = "alert"
    /\ UNCHANGED <<hasServiceWorker, hasNotification, hasPushManager, reg, permission,
                   subscription, request, stored, alertShown, threwAt, loads>>
    /\ UNCHANGED <<stationVars, swVars>>

\* custom.js 55: the awaited fetch rejects with a network error, before the
\* request got through or after it did and the response was lost
FetchRejects ==
    /\ ppc = "await_fetch"
    /\ threwAt' = "fetch"
    /\ ppc' = "catch"
    /\ UNCHANGED <<hasServiceWorker, hasNotification, hasPushManager, reg, permission,
                   subscription, request, stored, alertShown, steps, loads>>
    /\ UNCHANGED <<stationVars, swVars>>

\* custom.js 60: alert("Subscribed to push notifications!")
AlertSubscribed ==
    /\ ppc = "alert"
    /\ alertShown' = "subscribed"
    /\ ppc' = "done"
    /\ UNCHANGED <<hasServiceWorker, hasNotification, hasPushManager, reg, permission,
                   subscription, request, stored, threwAt, steps, loads>>
    /\ UNCHANGED <<stationVars, swVars>>

\* custom.js 61-63: catch (err) { console.error(...) }
Catch ==
    /\ ppc = "catch"
    /\ ppc' = "done"
    /\ UNCHANGED <<hasServiceWorker, hasNotification, hasPushManager, reg, permission,
                   subscription, request, stored, alertShown, threwAt, steps, loads>>
    /\ UNCHANGED <<stationVars, swVars>>

(***************************************************************************)
(* Satellite tile loop, one action per statement                           *)
(***************************************************************************)
\* line 39: CURRENT_YEAR=$(date -u +%Y)
ReadYear ==
    /\ tpc = "date_year"
    /\ CURRENT_YEAR' = Fmt(Cal(now).Y, 4)
    /\ tpc' = "date_month"
    /\ UNCHANGED camVars
    /\ UNCHANGED webVars
    /\ UNCHANGED <<now, CURRENT_MONTH, CURRENT_DAY, CURRENT_HOUR, CURRENT_MINUTE,
                   LATEST_TIMESTAMP, file, xfer, rc, logged, cycle, ticks, prior,
                   lastGood, seen>>
    /\ UNCHANGED <<attempts, attemptAt>>

\* line 40: CURRENT_MONTH=$(date -u +%m)
ReadMonth ==
    /\ tpc = "date_month"
    /\ CURRENT_MONTH' = Fmt(Cal(now).Mo, 2)
    /\ tpc' = "date_day"
    /\ UNCHANGED camVars
    /\ UNCHANGED webVars
    /\ UNCHANGED <<now, CURRENT_YEAR, CURRENT_DAY, CURRENT_HOUR, CURRENT_MINUTE,
                   LATEST_TIMESTAMP, file, xfer, rc, logged, cycle, ticks, prior,
                   lastGood, seen>>
    /\ UNCHANGED <<attempts, attemptAt>>

\* line 41: CURRENT_DAY=$(date -u +%d)
ReadDay ==
    /\ tpc = "date_day"
    /\ CURRENT_DAY' = Fmt(Cal(now).D, 2)
    /\ tpc' = "date_hour"
    /\ UNCHANGED camVars
    /\ UNCHANGED webVars
    /\ UNCHANGED <<now, CURRENT_YEAR, CURRENT_MONTH, CURRENT_HOUR, CURRENT_MINUTE,
                   LATEST_TIMESTAMP, file, xfer, rc, logged, cycle, ticks, prior,
                   lastGood, seen>>
    /\ UNCHANGED <<attempts, attemptAt>>

\* line 42: CURRENT_HOUR=$(date -u +%H)
ReadHour ==
    /\ tpc = "date_hour"
    /\ CURRENT_HOUR' = Fmt(Cal(now).H, 2)
    /\ tpc' = "date_minute"
    /\ UNCHANGED camVars
    /\ UNCHANGED webVars
    /\ UNCHANGED <<now, CURRENT_YEAR, CURRENT_MONTH, CURRENT_DAY, CURRENT_MINUTE,
                   LATEST_TIMESTAMP, file, xfer, rc, logged, cycle, ticks, prior,
                   lastGood, seen>>
    /\ UNCHANGED <<attempts, attemptAt>>

\* lines 43-62: CURRENT_MINUTE=$(date -u +%M), the interval arithmetic and the
\* timestamp string.  An arithmetic error ends the enclosing while command,
\* and with it the script.
ReadMinute ==
    /\ tpc = "date_minute"
    /\ LET minute == Fmt(Cal(now).Mi, 2) IN
        /\ CURRENT_MINUTE' = minute
        /\ IF ArithOk(minute)
           THEN /\ LATEST_TIMESTAMP' = Timestamp(CURRENT_YEAR, CURRENT_MONTH,
                                                 CURRENT_DAY, CURRENT_HOUR, minute)
                /\ tpc' = "curl"
           ELSE /\ LATEST_TIMESTAMP' = LATEST_TIMESTAMP
                /\ tpc' = "exited"
    /\ UNCHANGED camVars
    /\ UNCHANGED webVars
    /\ UNCHANGED <<now, CURRENT_YEAR, CURRENT_MONTH, CURRENT_DAY, CURRENT_HOUR,
                   file, xfer, rc, logged, cycle, ticks, prior, lastGood, seen>>
    /\ UNCHANGED <<attempts, attemptAt>>

\* line 67, curl -f -L -s -o: the request fails before any body arrives
\* (6 resolve, 7 connect, 22 HTTP status >= 400); nothing is written
CurlFail ==
    /\ tpc = "curl"
    /\ \E e \in {6, 7, 22} :
          /\ rc' = e
          /\ xfer' = [status |-> IF e = 22 THEN "4xx" ELSE "none", total |-> 0, got |-> 0]
    /\ tpc' = "check"
    /\ UNCHANGED camVars
    /\ UNCHANGED webVars
    /\ UNCHANGED <<now, CURRENT_YEAR, CURRENT_MONTH, CURRENT_DAY, CURRENT_HOUR,
                   CURRENT_MINUTE, LATEST_TIMESTAMP, file, logged, cycle, ticks,
                   prior, lastGood, seen>>
    /\ attempts' = attempts + 1
    /\ attemptAt' = now

\* line 67: the final response (redirects followed) has a 2xx status and a
\* body of n chunks
CurlResponse ==
    /\ tpc = "curl"
    /\ \E n \in 0..MaxBody : xfer' = [status |-> "2xx", total |-> n, got |-> 0]
    /\ tpc' = "transfer"
    /\ UNCHANGED camVars
    /\ UNCHANGED webVars
    /\ UNCHANGED <<now, CURRENT_YEAR, CURRENT_MONTH, CURRENT_DAY, CURRENT_HOUR,
                   CURRENT_MINUTE, LATEST_TIMESTAMP, file, rc, logged, cycle, ticks,
                   prior, lastGood, seen>>
    /\ attempts' = attempts + 1
    /\ attemptAt' = now

\* line 67: curl writes the next chunk to $OUTPUT_PATH; the first chunk opens
\* the file for writing, which truncates what was there
CurlWrite ==
    /\ tpc = "transfer"
    /\ xfer.got < xfer.total
    /\ file' = Content(cycle, xfer.total, xfer.got + 1)
    /\ xfer' = [xfer EXCEPT !.got = @ + 1]
    /\ UNCHANGED camVars
    /\ UNCHANGED webVars
    /\ UNCHANGED <<now, tpc, CURRENT_YEAR, CURRENT_MONTH, CURRENT_DAY, CURRENT_HOUR,
                   CURRENT_MINUTE, LATEST_TIMESTAMP, rc, logged, cycle, ticks,
                   prior, lastGood, seen>>
    /\ UNCHANGED <<attempts, attemptAt>>

\* line 67: the connection drops before the body is complete (18 partial
\* file, 56 receive error); what was written stays in $OUTPUT_PATH
CurlDrop ==
    /\ tpc = "transfer"
    /\ xfer.got < xfer.total
    /\ \E e \in {18, 56} : rc' = e
    /\ tpc' = "check"
    /\ UNCHANGED camVars
    /\ UNCHANGED webVars
    /\ UNCHANGED <<now, CURRENT_YEAR, CURRENT_MONTH, CURRENT_DAY, CURRENT_HOUR,
                   CURRENT_MINUTE, LATEST_TIMESTAMP, file, xfer, logged, cycle, ticks,
                   prior, lastGood, seen>>
    /\ UNCHANGED <<attempts, attemptAt>>

\* line 67: the transfer completes; for a body of no bytes curl creates the
\* output file empty
CurlDone ==
    /\ tpc = "transfer"
    /\ xfer.got = xfer.total
    /\ file' = IF xfer.total = 0 THEN Content(cycle, 0, 0) ELSE file
    /\ rc' = 0
    /\ tpc' = "check"
    /\ UNCHANGED camVars
    /\ UNCHANGED webVars
    /\ UNCHANGED <<now, CURRENT_YEAR, CURRENT_MONTH, CURRENT_DAY, CURRENT_HOUR,
                   CURRENT_MINUTE, LATEST_TIMESTAMP, xfer, logged, cycle, ticks,
                   prior, lastGood, seen>>
    /\ UNCHANGED <<attempts, attemptAt>>

\* the check with one immediate retry of a failed download
CheckStatusRetry ==
    /\ tpc = "check"
    /\ IF rc = 0
       THEN IF NonEmptyFile(file)
            THEN /\ logged' = "successful"
                 /\ file' = file
            ELSE /\ logged' = "empty"
                 /\ file' = NoFile
       ELSE /\ logged' = "curl_error"
            /\ file' = file
    /\ lastGood' = IF rc = 0 /\ xfer.status = "2xx" /\ xfer.total > 0
                   THEN Content(cycle, xfer.total, xfer.total)
                   ELSE lastGood
    /\ tpc' = IF rc # 0 /\ attempts < 2 THEN "curl" ELSE "sleep"
    /\ UNCHANGED camVars
    /\ UNCHANGED webVars
    /\ UNCHANGED <<now, CURRENT_YEAR, CURRENT_MONTH, CURRENT_DAY, CURRENT_HOUR,
                   CURRENT_MINUTE, LATEST_TIMESTAMP, xfer, rc, cycle, ticks, prior, seen>>
    /\ UNCHANGED <<attempts, attemptAt>>

\* lines 70-82: the exit status check, the size check and rm -f
CheckStatus ==
    /\ tpc = "check"
    /\ IF rc = 0
       THEN IF NonEmptyFile(file)
            THEN /\ logged' = "successful"
                 /\ file' = file
            ELSE /\ logged' = "empty"
                 /\ file' = NoFile
       ELSE /\ logged' = "curl_error"
            /\ file' = file
    /\ lastGood' = IF rc = 0 /\ xfer.status = "2xx" /\ xfer.total > 0
                   THEN Content(cycle, xfer.total, xfer.total)
                   ELSE lastGood
    /\ tpc' = "sleep"
    /\ UNCHANGED camVars
    /\ UNCHANGED webVars
    /\ UNCHANGED <<now, CURRENT_YEAR, CURRENT_MONTH, CURRENT_DAY, CURRENT_HOUR,
                   CURRENT_MINUTE, LATEST_TIMESTAMP, xfer, rc, cycle, ticks, prior, seen>>
    /\ UNCHANGED <<attempts, attemptAt>>

\* the pause of line 86, in minutes
TileSleepMinutes == 15

\* line 86: sleep 900, then the next iteration
TileSleep ==
    /\ tpc = "sleep"
    /\ cycle < MaxCycles
    /\ now' = now + TileSleepMinutes
    /\ tpc' = "date_year"
    /\ cycle' = cycle + 1
    /\ ticks' = 0
    /\ prior' = file
    /\ xfer' = NoXfer
    /\ logged' = "none"
    /\ UNCHANGED camVars
    /\ UNCHANGED webVars
    /\ UNCHANGED <<CURRENT_YEAR, CURRENT_MONTH, CURRENT_DAY, CURRENT_HOUR,
                   CURRENT_MINUTE, LATEST_TIMESTAMP, file, rc, lastGood, seen>>
    /\ attempts' = 0
    /\ UNCHANGED attemptAt

\* a minute of wall-clock time passes between two of the five date readings
TileTick ==
    /\ tpc \in {"date_month", "date_day", "date_hour", "date_minute"}
    /\ ticks < MaxTicks
    /\ now' = now + 1
    /\ ticks' = ticks + 1
    /\ UNCHANGED camVars
    /\ UNCHANGED webVars
    /\ UNCHANGED <<tpc, CURRENT_YEAR, CURRENT_MONTH, CURRENT_DAY, CURRENT_HOUR,
                   CURRENT_MINUTE, LATEST_TIMESTAMP, file, xfer, rc, logged, cycle,
                   prior, lastGood, seen>>
    /\ UNCHANGED <<attempts, attemptAt>>

\* an external reader (the web server) opens $OUTPUT_PATH
ReaderRead ==
    /\ seen' = file
    /\ seen' # seen
    /\ UNCHANGED camVars
    /\ UNCHANGED webVars
    /\ UNCHANGED <<now, tpc, CURRENT_YEAR, CURRENT_MONTH, CURRENT_DAY, CURRENT_HOUR,
                   CURRENT_MINUTE, LATEST_TIMESTAMP, file, xfer, rc, logged, cycle,
                   ticks, prior, lastGood>>
    /\ UNCHANGED <<attempts, attemptAt>>

(***************************************************************************)
(* Whole-sky camera loop                                                   *)
(***************************************************************************)
\* the gate hours of line 103
WindowStart == 3

WindowEnd == 18

\* the gate with -gt in place of -ge
GateOpenAfterStart(hour) == DecVal(hour) > WindowStart /\ DecVal(hour) < WindowEnd

\* line 103: [ "$CURRENT_HOUR" -ge 3 ] && [ "$CURRENT_HOUR" -lt 18 ]
GateOpen(hour) == DecVal(hour) >= WindowStart /\ DecVal(hour) < WindowEnd

\* the count of lines 119 and 120 (tail -n +31 keeps 30 lines)
MaxCount == 30

\* a *.jpg file of $IMG_DIR: the instant its name is made of, whether its
\* path contains "/THUNDER", and its modification time
File(name, thunder, mtime) == [name |-> name, thunder |-> thunder, mtime |-> mtime]

\* the order of ls -tr: oldest first
ListedOldestFirst(f, g) ==
    \/ f.mtime < g.mtime
    \/ /\ f.mtime = g.mtime
       /\ \/ f.thunder /\ ~g.thunder
          \/ f.thunder = g.thunder /\ f.name > g.name

\* ls -t lists f before g: newer modification time first, ties by name
\* (a name starting with a digit sorts before one starting with THUNDER)
ListedBefore(f, g) ==
    \/ f.mtime > g.mtime
    \/ /\ f.mtime = g.mtime
       /\ \/ ~f.thunder /\ g.thunder
          \/ f.thunder = g.thunder /\ f.name < g.name

RECURSIVE InsertListed(_, _)
\* the listing with f put at its place
InsertListed(f, listing) ==
    IF listing = <<>> \/ ListedBefore(f, listing[1]) THEN <<f>> \o listing
    ELSE <<listing[1]>> \o InsertListed(f, Tail(listing))

RECURSIVE LsT(_)
\* ls -t "$IMG_DIR"/*.jpg
LsT(d) ==
    IF d = {} THEN <<>>
    ELSE LET f == CHOOSE f \in d : TRUE
         IN  InsertListed(f, LsT(d \ {f}))

IsNonThunder(f) == ~f.thunder

\* the listing with no grep -v filter
GrepNothing(listing) == listing

\* grep -v "/THUNDER"
GrepNonThunder(listing) == SelectSeq(listing, IsNonThunder)

\* line 117: NON_THUNDER_IMAGES
NON_THUNDER_IMAGES(d) == GrepNonThunder(LsT(d))

\* line 118: echo "$NON_THUNDER_IMAGES" | wc -l  (echo of nothing is one line)
IMAGE_COUNT(images) == IF images = <<>> THEN 1 ELSE Len(images)

\* tail -n 1 in place of tail -n +k: the last line only
TailLast(listing, k) == SubSeq(listing, Len(listing), Len(listing))

\* tail -n +k: the lines from the k-th on
TailFrom(listing, k) == SubSeq(listing, k, Len(listing))

\* the removal with tail -n +(n+2): one file too many is kept
ToRemoveKeepingOneMore(d, n) ==
    LET images == NON_THUNDER_IMAGES(d)
    IN  IF IMAGE_COUNT(images) > n THEN TailFrom(images, n + 2) ELSE <<>>

\* lines 119-120: the files handed to xargs rm when more than n are listed
ToRemove(d, n) ==
    LET images == NON_THUNDER_IMAGES(d)
    IN  IF IMAGE_COUNT(images) > n THEN TailFrom(images, n + 1) ELSE <<>>

Range(seq) == {seq[i] : i \in 1..Len(seq)}

\* $IMG_DIR after the retention pass of lines 117-121 with count n
AfterRetention(d, n) == d \ Range(ToRemove(d, n))

\* line 111: libcamera-still -o "$OUTPUT_FILE" writes the frame, replacing a
\* file of the same name
AfterCapture(d, stamp, t) ==
    {f \in d : ~(f.name = stamp /\ ~f.thunder)} \cup {File(stamp, FALSE, t)}

\* clock readings the camera loop is started at: every hour of a day
HourStarts == {FromCal(2024, 6, 1, h, 0) : h \in 0..23}

\* clock readings one minute before the window opens and before it closes
EdgeStarts == {FromCal(2024, 6, 1, WindowStart - 1, 59), FromCal(2024, 6, 1, WindowEnd - 1, 59)}

\* the pause of line 124, in minutes
CamSleepMinutes == 5

\* u earlier captures, one per iteration, the newest one iteration before t0
EarlierCaptures(t0, u) ==
    {File(t0 - CamSleepMinutes * k, FALSE, t0 - CamSleepMinutes * k) : k \in 1..u}

\* captures renamed to THUNDER..., taken between the k-th and (k+1)-th earlier
\* iteration
EarlierThunder(t0, ks) ==
    {File(t0 - CamSleepMinutes * k - 2, TRUE, t0 - CamSleepMinutes * k - 2) : k \in ks}

\* numbers of unpinned files found in $IMG_DIR at start
StartCounts == {MaxCount - 1, MaxCount, MaxCount + 3}

\* positions of the pinned files found in $IMG_DIR at start
StartThunder == {{}, {1, MaxCount + 5}}

InitCamVars ==
    /\ camCycle = 1
    /\ cpc = "date_hour"
    /\ CAM_CURRENT_HOUR = <<>>
    /\ TIMESTAMP = 0
    /\ camTicks = 0
    /\ readAt = 0
    /\ attempted = FALSE
    /\ before = {}
    /\ evicted = <<>>
    /\ passes = 0
    /\ skipped = FALSE
    /\ passCycle = 0
    /\ failed = {}
    /\ prevFailed = {}

\* the camera script asleep at the end of iteration c, begun at the present
\* clock reading with the gate open, in which a frame was captured into a
\* directory of MaxCount - 1 earlier frames and one pinned file
AsleepAfterCapture(c) ==
    /\ camCycle = c
    /\ cpc = "sleep"
    /\ CAM_CURRENT_HOUR = Fmt(Cal(now).H, 2)
    /\ TIMESTAMP = now
    /\ dir = AfterCapture(EarlierCaptures(now, MaxCount - 1) \cup EarlierThunder(now, {1}),
                          now, now)
    /\ camTicks = 0
    /\ readAt = now
    /\ attempted = TRUE
    /\ before = dir
    /\ evicted = <<>>
    /\ passes = 1
    /\ skipped = FALSE
    /\ passCycle = c
    /\ failed = {}
    /\ prevFailed = {}

\* line 100: CURRENT_HOUR=$(date -u +"%H")
CamReadHour ==
    /\ cpc = "date_hour"
    /\ CAM_CURRENT_HOUR' = Fmt(Cal(now).H, 2)
    /\ readAt' = now
    /\ attempted' = FALSE
    /\ cpc' = "gate"
    /\ UNCHANGED tileVars
    /\ UNCHANGED webVars
    /\ UNCHANGED <<now, TIMESTAMP, dir, camCycle, camTicks, before, evicted, passes>>
    /\ skipped' = FALSE
    /\ UNCHANGED <<passCycle, failed, prevFailed>>

\* lines 103-108 with the window open: TIMESTAMP=$(date ...), OUTPUT_FILE
CamGateOpen ==
    /\ cpc = "gate"
    /\ GateOpen(CAM_CURRENT_HOUR)
    /\ TIMESTAMP' = now
    /\ cpc' = "capture"
    /\ UNCHANGED tileVars
    /\ UNCHANGED webVars
    /\ UNCHANGED <<now, CAM_CURRENT_HOUR, dir, camCycle, camTicks, readAt, attempted,
                   before, evicted, passes>>
    /\ UNCHANGED <<skipped, passCycle, failed, prevFailed>>

\* the closed window with a `continue`: straight to the next hour reading
CamGateClosedContinue ==
    /\ cpc = "gate"
    /\ ~GateOpen(CAM_CURRENT_HOUR)
    /\ cpc' = "date_hour"
    /\ UNCHANGED tileVars
    /\ UNCHANGED webVars
    /\ UNCHANGED <<now, CAM_CURRENT_HOUR, TIMESTAMP, dir, camCycle, camTicks, readAt,
                   attempted, before, evicted, passes>>
    /\ skipped' = TRUE
    /\ UNCHANGED <<passCycle, failed, prevFailed>>

\* the closed window with the retention block inside the capture branch
CamGateClosedNoPass ==
    /\ cpc = "gate"
    /\ ~GateOpen(CAM_CURRENT_HOUR)
    /\ cpc' = "sleep"
    /\ UNCHANGED tileVars
    /\ UNCHANGED webVars
    /\ UNCHANGED <<now, CAM_CURRENT_HOUR, TIMESTAMP, dir, camCycle, camTicks, readAt,
                   attempted, before, evicted, passes>>
    /\ skipped' = TRUE
    /\ UNCHANGED <<passCycle, failed, prevFailed>>

\* lines 103, 112-113 with the window closed: the "Skipping capture" message
CamGateClosed ==
    /\ cpc = "gate"
    /\ ~GateOpen(CAM_CURRENT_HOUR)
    /\ cpc' = "retention"
    /\ UNCHANGED tileVars
    /\ UNCHANGED webVars
    /\ UNCHANGED <<now, CAM_CURRENT_HOUR, TIMESTAMP, dir, camCycle, camTicks, readAt,
                   attempted, before, evicted, passes>>
    /\ skipped' = TRUE
    /\ UNCHANGED <<passCycle, failed, prevFailed>>

\* line 111: libcamera-still writes the frame
CamCaptureOk ==
    /\ cpc = "capture"
    /\ dir' = AfterCapture(dir, TIMESTAMP, now)
    /\ attempted' = TRUE
    /\ passes' = 0
    /\ cpc' = "retention"
    /\ UNCHANGED tileVars
    /\ UNCHANGED webVars
    /\ UNCHANGED <<now, CAM_CURRENT_HOUR, TIMESTAMP, camCycle, camTicks, readAt,
                   before, evicted>>
    /\ UNCHANGED <<skipped, passCycle, failed, prevFailed>>

\* line 111: libcamera-still fails and writes nothing
CamCaptureFail ==
    /\ cpc = "capture"
    /\ attempted' = TRUE
    /\ cpc' = "retention"
    /\ UNCHANGED tileVars
    /\ UNCHANGED webVars
    /\ UNCHANGED <<now, CAM_CURRENT_HOUR, TIMESTAMP, dir, camCycle, camTicks, readAt,
                   before, evicted, passes>>
    /\ UNCHANGED <<skipped, passCycle, failed, prevFailed>>

\* lines 117-121: the retention pass
CamRetention ==
    /\ cpc = "retention"
    /\ before' = dir
    /\ LET removed == ToRemove(dir, MaxCount) IN
          /\ evicted' = removed
          /\ dir' = dir \ Range(removed)
    /\ passes' = IF passes < 2 THEN passes + 1 ELSE passes
    /\ cpc' = "sleep"
    /\ UNCHANGED tileVars
    /\ UNCHANGED webVars
    /\ UNCHANGED <<now, CAM_CURRENT_HOUR, TIMESTAMP, camCycle, camTicks, readAt,
                   attempted>>
    /\ passCycle' = camCycle
    /\ failed' = {}
    /\ prevFailed' = failed
    /\ UNCHANGED skipped

\* xargs rm -- stops at the first file it cannot delete
RmStopsAtFailure(args, undeletable) ==
    {args[i] : i \in {j \in 1..Len(args) : \E k \in 1..j : args[k] \in undeletable}}

\* line 120, xargs rm -- args: the arguments still there afterwards.  rm
\* reports a file it cannot delete and goes on with the next argument.
RmLeaves(args, undeletable) ==
    {args[i] : i \in {j \in 1..Len(args) : args[j] \in undeletable}}

\* lines 117-121: a retention pass in which rm cannot delete one of the files
\* (permission denied); the script goes on to the sleep
CamRetentionRmFails ==
    /\ cpc = "retention"
    /\ before' = dir
    /\ LET removed == ToRemove(dir, MaxCount) IN
          /\ removed # <<>>
          /\ evicted' = removed
          /\ \E f \in Range(removed) :
                /\ failed' = {f}
                /\ dir' = (dir \ Range(removed)) \cup RmLeaves(removed, {f})
    /\ passes' = IF passes < 2 THEN passes + 1 ELSE passes
    /\ passCycle' = camCycle
    /\ prevFailed' = failed
    /\ cpc' = "sleep"
    /\ UNCHANGED tileVars
    /\ UNCHANGED webVars
    /\ UNCHANGED <<now, CAM_CURRENT_HOUR, TIMESTAMP, camCycle, camTicks, readAt,
                   attempted, skipped>>

\* line 124: sleep 300, then the next iteration
CamSleep ==
    /\ cpc = "sleep"
    /\ camCycle < MaxCamCycles
    /\ now' = now + CamSleepMinutes
    /\ camCycle' = camCycle + 1
    /\ camTicks' = 0
    /\ cpc' = "date_hour"
    /\ UNCHANGED tileVars
    /\ UNCHANGED webVars
    /\ UNCHANGED <<CAM_CURRENT_HOUR, TIMESTAMP, dir, readAt, attempted, before,
                   evicted, passes>>
    /\ UNCHANGED <<skipped, passCycle, failed, prevFailed>>

\* a minute of wall-clock time passes while the camera iteration is running:
\* between the hour reading and the gate, or while libcamera-still runs
CamTick ==
    /\ cpc \in {"gate", "capture"}
    /\ camTicks < MaxTicks
    /\ now' = now + 1
    /\ camTicks' = camTicks + 1
    /\ UNCHANGED tileVars
    /\ UNCHANGED webVars
    /\ UNCHANGED <<cpc, CAM_CURRENT_HOUR, TIMESTAMP, dir, camCycle, readAt, attempted,
                   before, evicted, passes>>
    /\ UNCHANGED <<skipped, passCycle, failed, prevFailed>>

InitCam ==
    /\ \/ /\ now \in HourStarts
          /\ dir = EarlierCaptures(now, 1) \cup EarlierThunder(now, {1})
       \/ /\ now \in EdgeStarts
          /\ \E u \in StartCounts, ks \in StartThunder :
                dir = EarlierCaptures(now, u) \cup EarlierThunder(now, ks)
    /\ InitCamVars
    /\ InitTileVars
    /\ NoPage
    /\ NoWorker

NextCam ==
    \/ CamReadHour
    \/ CamGateOpen
    \/ CamGateClosed
    \/ CamCaptureOk
    \/ CamCaptureFail
    \/ CamRetention
    \/ CamSleep
    \/ CamTick

SpecCam == InitCam /\ [][NextCam]_vars

NextCamFault ==
    \/ NextCam
    \/ CamRetentionRmFails

\* the camera loop started a minute before the window opens, in a directory
\* holding MaxCount unpinned files and two pinned ones
InitCamFault ==
    /\ now = FromCal(2024, 6, 1, WindowStart - 1, 59)
    /\ dir = EarlierCaptures(now, MaxCount) \cup EarlierThunder(now, {1, MaxCount + 5})
    /\ InitCamVars
    /\ InitTileVars
    /\ NoPage
    /\ NoWorker

\* the camera loop in a directory where rm may fail
SpecCamFault == InitCamFault /\ [][NextCamFault]_vars

InitTile ==
    /\ now \in TileStarts
    /\ InitTileVars
    /\ InitCamVars
    /\ dir = {}
    /\ NoPage
    /\ NoWorker

NextTile ==
    \/ ReadYear
    \/ ReadMonth
    \/ ReadDay
    \/ ReadHour
    \/ ReadMinute
    \/ CurlFail
    \/ CurlResponse
    \/ CurlWrite
    \/ CurlDrop
    \/ CurlDone
    \/ CheckStatus
    \/ TileSleep
    \/ TileTick
    \/ ReaderRead

SpecTile == InitTile /\ [][NextTile]_vars

\* the steps the script and curl take by themselves; whether and when the
\* server answers, sends the next chunk or drops the connection is not theirs:
\* line 67 gives curl no --max-time or --connect-timeout
TileOwnSteps ==
    \/ ReadYear
    \/ ReadMonth
    \/ ReadDay
    \/ ReadHour
    \/ ReadMinute
    \/ CurlDone
    \/ CheckStatus
    \/ TileSleep

\* the *.jpg files under directory d, each with its path and content; a
\* camera file's name is its THUNDER prefix, or none, and its time stamp
FilesUnder(d) ==
    (IF OUTPUT_DIR = d /\ file # NoFile THEN {<<OUTPUT_PATH, file>>} ELSE {})
        \cup (IF IMG_DIR = d THEN {<<<<IMG_DIR, f.thunder, f.name>>, f>> : f \in dir} ELSE {})

\* what is stored at path p
AtPath(p) == {e \in FilesUnder(p[1]) : e[1] = p}

\* 17:52Z: the window closes before both scripts have woken
BothStart == FromCal(2024, 6, 1, WindowEnd - 1, 52)

\* both scripts running side by side on one clock, each asleep at the end of
\* the last but one of the iterations explored; the clock is moved on by
\* whichever of the two wakes
InitBoth ==
    /\ now = BothStart
    /\ AsleepAfterDownload(MaxCycles - 1)
    /\ AsleepAfterCapture(MaxCamCycles - 1)
    /\ NoPage
    /\ NoWorker

NextBoth ==
    \/ NextTile
    \/ NextCam

SpecBoth == InitBoth /\ [][NextBoth]_vars

\* a browser with any subset of the three APIs, before the page is loaded
InitPush ==
    /\ ppc = "idle"
    /\ hasServiceWorker \in BOOLEAN
    /\ hasNotification \in BOOLEAN
    /\ hasPushManager \in BOOLEAN
    /\ stored = 0
    /\ loads = 0
    /\ NoInvocation
    /\ NoWorker
    /\ now = 0
    /\ dir = {}
    /\ InitTileVars
    /\ InitCamVars

NextPush ==
    \/ PageLoad
    \/ CheckServiceWorker
    \/ CheckNotification
    \/ RegisterResolves
    \/ RegisterRejects
    \/ PermissionResolves
    \/ PermissionRejects
    \/ CheckPermission
    \/ CheckPushManager
    \/ SubscribeResolves
    \/ SubscribeRejects
    \/ FetchCall
    \/ ServerReceives
    \/ FetchResolves
    \/ FetchRejects
    \/ AlertSubscribed
    \/ Catch

SpecPush == InitPush /\ [][NextPush]_vars

\* the service worker of a browser that has not loaded the page script
InitSW ==
    /\ NoWorker
    /\ NoPage
    /\ now = 0
    /\ dir = {}
    /\ InitTileVars
    /\ InitCamVars

NextSW ==
    \/ InstallEvent
    \/ AddAllFetch
    \/ AddAllFails
    \/ AddAllStore
    \/ PageRequest
    \/ ServerUpdate
    \/ NetworkChange

SpecSW == InitSW /\ [][NextSW]_vars

\* the tile loop with its own steps never postponed forever
SpecTileFair == InitTile /\ [][NextTile]_vars /\ WF_vars(TileOwnSteps)

(***************************************************************************)
(* Properties of the satellite tile loop                                   *)
(***************************************************************************)
\* the iteration's fetch was a complete, non-empty 2xx response
Validated == rc = 0 /\ xfer.status = "2xx" /\ xfer.total > 0

\* C1: at the end of each iteration $OUTPUT_PATH, if present, holds the
\* complete payload of the most recent validated fetch, and an iteration whose
\* fetch failed or was empty leaves a good prior snapshot as it was.
C1_LatestSnapshot ==
    tpc = "sleep" =>
        /\ file # NoFile => file = lastGood
        /\ (~Validated /\ prior # NoFile /\ prior = lastGood) => file = prior

\* the content a reader may observe: no file, or a complete non-empty payload
WholePayload(f) == f = NoFile \/ (f.total > 0 /\ f.len = f.total)

\* C2: a reader of $OUTPUT_PATH observes, at every step of a download, no
\* file or a complete valid payload, never truncated or partial bytes.
C2_ReaderSeesWhole == WholePayload(seen)

\* C3: when the retrieval succeeds with a body of no bytes, nothing is written
\* to $OUTPUT_PATH and the prior snapshot is there unchanged when the
\* iteration ends.
C3_EmptyNeverStored ==
    (tpc = "sleep" /\ rc = 0 /\ xfer.total = 0) => file = prior

\* C4: an iteration whose fetch got a non-2xx response or a transport
\* failure reports the error and ends with $OUTPUT_PATH as it began.
C4_ErrorLeavesStorage ==
    (tpc = "sleep" /\ rc # 0) => (logged = "curl_error" /\ file = prior)

\* the clock value a 12-digit YYYYMMDDHHMM index names
IndexTime(s) ==
    FromCal(DecVal(SubSeq(s, 1, 4)), DecVal(SubSeq(s, 5, 6)), DecVal(SubSeq(s, 7, 8)),
            DecVal(SubSeq(s, 9, 10)), DecVal(SubSeq(s, 11, 12)))

\* the index of the 15-minute grid for clock value t
GridIndex(t) ==
    Fmt(Cal(t).Y, 4) \o Fmt(Cal(t).Mo, 2) \o Fmt(Cal(t).D, 2) \o Fmt(Cal(t).H, 2)
        \o Fmt(15 * (Cal(t).Mi \div 15), 2)

\* C10: for every clock reading (all five fields read in the same minute) the
\* index is not later than the reading, less than 900 seconds before it, and
\* is the reading with its minute floored to a multiple of 15.
C10_AlignedIndex ==
    (tpc = "curl" /\ ticks = 0) =>
        /\ IndexTime(LATEST_TIMESTAMP) <= now
        /\ now - IndexTime(LATEST_TIMESTAMP) < TileSleepMinutes
        /\ LATEST_TIMESTAMP = GridIndex(now)

(***************************************************************************)
(* Properties of the camera loop                                           *)
(***************************************************************************)
NonPinned(d) == {f \in d : ~f.thunder}

Pinned(d) == {f \in d : f.thunder}

C6_PinnedNeverDeleted == cpc = "sleep" => Pinned(before) \subseteq dir

\* a pass has removed files newer than a pinned file that is still there
C6_Witness ==
    /\ cpc = "sleep"
    /\ \E f \in Pinned(dir), i \in 1..Len(evicted) : evicted[i].mtime > f.mtime

\* the files of d a retention policy with count n keeps: the pinned ones and
\* the n non-pinned ones with the latest capture instants
Kept(d, n) ==
    {f \in d : f.thunder \/ Cardinality({g \in NonPinned(d) : g.name > f.name}) < n}

\* five unpinned and two pinned files
ExampleDir ==
    {File(t, FALSE, t) : t \in {10, 20, 30, 40, 50}} \cup {File(t, TRUE, t) : t \in {5, 45}}

C8_Idempotent == (cpc = "sleep" /\ passes >= 2) => (evicted = <<>> /\ dir = before)

\* the second of two passes in a row has run on a directory that a pass had
\* to trim
C8_Witness ==
    /\ cpc = "sleep"
    /\ passes >= 2
    /\ Cardinality(NonPinned(dir)) = MaxCount
    /\ Pinned(dir) # {}

InWindow(h) == WindowStart <= h /\ h < WindowEnd

\* C9: the gate is open exactly for the UTC hours 3..17, the decision is made
\* from the hour of the clock reading alone, and libcamera-still is run in an
\* iteration iff the gate was open in it.
C9_WindowGate ==
    /\ cpc = "gate" =>
          /\ CAM_CURRENT_HOUR = Fmt(Cal(readAt).H, 2)
          /\ \A h \in 0..23 : GateOpen(Fmt(h, 2)) <=> InWindow(h)
    /\ cpc = "capture" => InWindow(Cal(readAt).H)
    /\ cpc \in {"retention", "sleep"} => (attempted <=> InWindow(Cal(readAt).H))

\* a capture was made in an iteration that read hour 17 and ended in hour 18
C9_Witness ==
    /\ cpc = "sleep"
    /\ attempted
    /\ Cal(readAt).H = WindowEnd - 1
    /\ Cal(now).H = WindowEnd

(***************************************************************************)
(* Properties of the scheduling of the two loops                           *)
(***************************************************************************)
\* C11: neither loop has a terminal state: no iteration, whatever its
\* outcome, ends the loop, and every sleep is the same fixed interval (15
\* minutes in the tile loop, 5 in the camera loop) followed by the next
\* iteration.
C11_NoTerminalState ==
    /\ [](tpc # "exited")
    /\ [][(tpc = "sleep" /\ tpc' # "sleep") =>
            (tpc' = "date_year" /\ now' = now + TileSleepMinutes)]_vars
    /\ [][(cpc = "sleep" /\ cpc' # "sleep") =>
            (cpc' = "date_hour" /\ now' = now + CamSleepMinutes)]_vars

\* C13: the retrieval is bounded by a timeout: once curl is started the
\* iteration reaches its sleep, whatever the upstream does.
C13_RetrievalBounded == (tpc = "curl") ~> (tpc = "sleep")

\* C14: the index is computed from one clock reading: it is never later than
\* the clock when it is used, and an iteration never computes a smaller index
\* than an earlier iteration did.
C14_MonotoneIndex ==
    /\ [](tpc = "curl" => IndexTime(LATEST_TIMESTAMP) <= now)
    /\ [][LATEST_TIMESTAMP # <<>> =>
            IndexTime(LATEST_TIMESTAMP') >= IndexTime(LATEST_TIMESTAMP)]_vars

\* C12: with the gate closed the iteration still happens: no capture, the
\* "Skipping" message, and the same sleep of 5 minutes before the next hour
\* reading as after an iteration with the gate open.
C12_ClosedCycleStillSleeps ==
    /\ [](cpc \in {"retention", "sleep"} =>
            (skipped <=> ~InWindow(Cal(readAt).H)) /\ (skipped => ~attempted))
    /\ [][(cpc # "date_hour" /\ cpc' = "date_hour") =>
            (cpc = "sleep" /\ now' = now + CamSleepMinutes)]_vars

\* the iteration after a skipped one is about to read the hour, one sleep
\* after the skipped one did
C12_Witness ==
    /\ cpc = "date_hour"
    /\ camCycle > 1
    /\ skipped
    /\ now >= readAt + CamSleepMinutes

C17_OneAttemptPerCycle ==
    /\ [](attempts <= 1)
    /\ [](tpc \in {"transfer", "check", "sleep"} => attempts = 1)
    /\ [][(attempts' = attempts + 1 /\ cycle > 1) =>
            now' >= attemptAt + TileSleepMinutes]_vars

\* a failed download was followed by the sleep, in an iteration after the first
C17_Witness ==
    /\ tpc = "sleep"
    /\ cycle > 1
    /\ rc # 0
    /\ attempts = 1
    /\ now >= attemptAt

C16_LoopsShareNoState ==
    [][/\ tileVars' # tileVars => FilesUnder(IMG_DIR)' = FilesUnder(IMG_DIR)
       /\ camVars' # camVars => AtPath(OUTPUT_PATH)' = AtPath(OUTPUT_PATH)]_vars

\* the tile loop has stored a snapshot while the camera loop, in the middle
\* of an iteration, has captured a frame and evicted files
C16_Witness ==
    /\ AtPath(OUTPUT_PATH) # {}
    /\ tpc = "transfer"
    /\ cpc = "sleep"
    /\ evicted # <<>>
    /\ \E f \in dir : f.name = TIMESTAMP

\* the three calls the POST has to come after, in the order the code makes them
Prerequisites == <<"register", "granted", "subscribe">>

\* the invocation left by one of the four returns before the try block's end
ExitedEarly ==
    \/ ~hasServiceWorker
    \/ ~hasNotification
    \/ permission \in {"denied", "default"}
    \/ ~hasPushManager

\* C19 as stated: the POST to /store_subscription goes out only after
\* register, a granted permission and subscribe, in that order; and an
\* invocation that met a missing API, a permission other than granted or a
\* rejection of any awaited call has sent the server nothing and shown no
\* "Subscribed" alert.
C19_StrictOrderAnyThrow ==
    /\ request # "none" => SubSeq(steps, 1, 3) = Prerequisites
    /\ (ExitedEarly \/ threwAt # "none") =>
          /\ request # "received"
          /\ alertShown # "subscribed"

\* C19 amended: as above, with the rejection being one of register,
\* requestPermission or subscribe; when it is the POST itself that rejects,
\* no "Subscribed" alert is shown, while the server may have the subscription.
C19_StrictOrderThrowBeforePost ==
    /\ request # "none" => SubSeq(steps, 1, 3) = Prerequisites
    /\ (ExitedEarly \/ threwAt \in {"register", "permission", "subscribe"}) =>
          /\ request = "none"
          /\ alertShown # "subscribed"
    /\ threwAt = "fetch" => alertShown # "subscribed"

\* a second page load ended by subscribe rejecting, after a first one that
\* stored a subscription
C19_Witness ==
    /\ ppc = "done"
    /\ threwAt = "subscribe"
    /\ request = "none"
    /\ stored = 1

\* C20: a fetch event is answered from the cache whenever caches.match finds
\* an entry for the request, with that entry, and from the network (or with
\* the network's failure) only when it finds none; handling a fetch leaves
\* the cache storage as it was, and the storage changes only in the install
\* step.
C20_CacheFirstReadOnly ==
    /\ [][requests' # requests =>
             /\ caches' = caches
             /\ IF Match([url |-> response'.url, method |-> response'.method]) # {}
                   THEN /\ response'.from = "cache"
                        /\ <<CACHE_NAME, response'.url, response'.version>> \in caches
                   ELSE response'.from \in {"network", "error"}]_vars
    /\ [][caches' # caches => (swState = "installing" /\ swState' = "activated")]_vars

\* with the network up and the site redeployed since the install, a request
\* was answered with the older cached copy
C20_Witness ==
    /\ response.from = "cache"
    /\ response.version < serverVersion
    /\ online

====
